---- MODULE Spec2Model ----
(***************************************************************************)
(* The migration engine of hashicorp-vault-migrations: RunMigrations,      *)
(* applyMigration, executeTask and the version tracker, as a state machine *)
(* over an abstract key/value store.  The repository carries three drafts  *)
(* of the runner; the variable draft says which one a behaviour runs:      *)
(*   "A"  src/pkg/migrations/migrations.go:1-249   (goroutines, retries)   *)
(*   "B"  src/pkg/migrations/migrations.go:251-485 (goroutines, no retry)  *)
(*   "C"  src/unnamed/part_003                     (sequential)            *)
(***************************************************************************)
EXTENDS Integers, Sequences, FiniteSets, TLC

(***************************************************************************)
(* Bounds of the model.                                                    *)
(***************************************************************************)
MaxRuns == 2

\* Generator calls in a behaviour of GenSpec.
MaxGenerations == 2

\* Versions from -MaxVersion to MaxVersion go through the tracker's round trip.
MaxVersion == 120

(***************************************************************************)
(* Program constants.                                                      *)
(***************************************************************************)
MaxAttempts == 3

LastRetry == 2

TrackingPath == "migrations/version"

Drafts == {"A", "B", "C"}

(***************************************************************************)
(* Strings are sequences of one-character strings, so that strconv.Itoa    *)
(* and strconv.Atoi are computed and not assumed to be inverse.            *)
(***************************************************************************)
Digits == <<"0", "1", "2", "3", "4", "5", "6", "7", "8", "9">>

RECURSIVE NatToStr(_)
NatToStr(n) ==
    IF n < 10 THEN <<Digits[n + 1]>>
    ELSE Append(NatToStr(n \div 10), Digits[(n % 10) + 1])

\* Mutant of Itoa: the sign is dropped.
ItoaNoSign(n) == NatToStr(IF n < 0 THEN 0 - n ELSE n)

Itoa(n) == IF n < 0 THEN <<"-">> \o NatToStr(0 - n) ELSE NatToStr(n)

DigitVal(c) == CHOOSE d \in 0..9 : Digits[d + 1] = c

IsDigit(c) == \E d \in 0..9 : Digits[d + 1] = c

RECURSIVE StrToNat(_)
StrToNat(s) ==
    IF Len(s) = 0 THEN 0
    ELSE 10 * StrToNat(SubSeq(s, 1, Len(s) - 1)) + DigitVal(s[Len(s)])

\* strconv.Atoi: an optional sign, then one or more decimal digits.
Atoi(s) ==
    LET signed == Len(s) > 0 /\ s[1] \in {"-", "+"}
        body   == IF signed THEN SubSeq(s, 2, Len(s)) ELSE s
        wellformed == Len(body) > 0 /\ \A i \in 1..Len(body) : IsDigit(body[i])
    IN  IF ~wellformed THEN [ok |-> FALSE, val |-> 0]
        ELSE [ok |-> TRUE,
              val |-> IF signed /\ s[1] = "-" THEN 0 - StrToNat(body)
                      ELSE StrToNat(body)]

MaxOf(S) == CHOOSE m \in S : \A n \in S : n <= m

(***************************************************************************)
(* Tasks, migrations and the migrations directory.                         *)
(***************************************************************************)
NoData == [f \in {} |-> <<>>]

Task(p, m, d) == [path |-> p, method |-> m, data |-> d]

Migration(v, ts) == [version |-> v, tasks |-> ts]

AppPath == "secret/data/app"
AuthPath == "auth/approle"

DataV1 == [k |-> <<"v", "1">>]
DataV2 == [k |-> <<"v", "2">>]

\* The directories the behaviours start from, each a sequence of files in
\* the order filepath.Glob lists them.
Directories ==
    { \* two versions, listed in order
      << Migration(1, <<Task(AppPath, "write", DataV1), Task(AuthPath, "write", DataV2)>>),
         Migration(2, <<Task(AppPath, "delete", NoData)>>) >>,
      \* file names out of version order, a read
      << Migration(2, <<Task(AppPath, "read", NoData)>>),
         Migration(1, <<Task(AppPath, "write", DataV1)>>) >>,
      \* a task aimed at the tracking path
      << Migration(1, <<Task(AppPath, "write", DataV1)>>),
         Migration(2, <<Task(TrackingPath, "write", [version |-> Itoa(0)]),
                        Task(AuthPath, "write", DataV2)>>) >>,
      \* two files declaring the same version
      << Migration(1, <<Task(AppPath, "write", DataV1)>>),
         Migration(1, <<Task(AppPath, "write", DataV2)>>) >>,
      \* the method names of draft B
      << Migration(1, <<Task(AuthPath, "POST", DataV2), Task(AppPath, "PUT", DataV1)>>),
         Migration(2, <<Task(AppPath, "DELETE", NoData)>>) >>,
      \* three versions, a method no draft executes
      << Migration(3, <<Task(AppPath, "list", NoData)>>),
         Migration(1, <<Task(AppPath, "write", DataV1)>>),
         Migration(2, <<Task(AuthPath, "write", DataV2)>>) >> }

(***************************************************************************)
(* The remote store: a function from the paths that hold a secret to the   *)
(* secret's data.  A path outside its domain reads as a nil secret.        *)
(***************************************************************************)
\* Mutant of StoreWrite: the write replaces the whole store.
StoreWriteClobber(s, p, d) == [q \in {p} |-> d]

StoreWrite(s, p, d) == [q \in (DOMAIN s) \cup {p} |-> IF q = p THEN d ELSE s[q]]

StoreDelete(s, p) == [q \in (DOMAIN s) \ {p} |-> s[q]]

\* getLastAppliedVersion: readOk is the outcome of the store's read.
getLastAppliedVersion(s, readOk) ==
    IF ~readOk THEN [err |-> TRUE, version |-> 0]
    ELSE IF TrackingPath \notin DOMAIN s \/ "version" \notin DOMAIN s[TrackingPath]
         THEN [err |-> FALSE, version |-> 0]
    ELSE LET a == Atoi(s[TrackingPath]["version"])
         IN  IF a.ok THEN [err |-> FALSE, version |-> a.val]
             ELSE [err |-> TRUE, version |-> 0]

\* Mutant of setLastAppliedVersion: the write's error is swallowed.
setLastAppliedVersionSwallow(s, v, writeOk) ==
    [err |-> FALSE,
     store |-> IF writeOk THEN StoreWrite(s, TrackingPath, [version |-> Itoa(v)]) ELSE s]

\* setLastAppliedVersion: writeOk is the outcome of the store's write.
setLastAppliedVersion(s, v, writeOk) ==
    IF writeOk THEN [err |-> FALSE, store |-> StoreWrite(s, TrackingPath, [version |-> Itoa(v)])]
    ELSE [err |-> TRUE, store |-> s]

\* The methods each draft's executor knows.
WriteMethods(d) ==
    CASE d = "A" -> {"write"}
      [] d = "B" -> {"POST", "PUT"}
      [] OTHER   -> {"write"}

DeleteMethods(d) ==
    CASE d = "A" -> {"delete"}
      [] d = "B" -> {"DELETE"}
      [] OTHER   -> {"delete"}

ReadMethods(d) == IF d = "A" THEN {"read"} ELSE {}

\* executeTask (the switch of applyMigration in draft C): callOk is the
\* outcome of the store call, when one is made.
executeTask(d, s, t, callOk) ==
    IF t.method \in ReadMethods(d) THEN
        [err |-> IF callOk THEN "nil" ELSE "store", store |-> s, called |-> TRUE]
    ELSE IF t.method \in WriteMethods(d) THEN
        [err |-> IF callOk THEN "nil" ELSE "store",
         store |-> IF callOk THEN StoreWrite(s, t.path, t.data) ELSE s, called |-> TRUE]
    ELSE IF t.method \in DeleteMethods(d) THEN
        [err |-> IF callOk THEN "nil" ELSE "store",
         store |-> IF callOk THEN StoreDelete(s, t.path) ELSE s, called |-> TRUE]
    ELSE [err |-> "unsupported", store |-> s, called |-> FALSE]

\* Mutant of Orderings: a file may be taken twice and another one dropped.
OrderingsAnyFile(n) == [1..n -> 1..n]

\* loadMigrations: every order sort.Slice (not stable) can leave the files in.
Orderings(n) == {p \in [1..n -> 1..n] : \A i, j \in 1..n : p[i] = p[j] => i = j}

loadMigrations(d) ==
    { [i \in 1..Len(d) |-> d[p[i]]] : p \in
        {q \in Orderings(Len(d)) :
            \A i, j \in 1..Len(d) : i < j => ~(d[q[j]].version < d[q[i]].version)} }

(***************************************************************************)
(* State.                                                                  *)
(***************************************************************************)
VARIABLES
    draft,        \* which draft of the runner this behaviour runs
    dir,          \* the migrations directory: files in Glob order
    store,        \* the remote store
    dryRun,       \* MigrationRunner.dryRun of the current run
    cancelled,    \* ctx.Done() of the current run is closed
    pc,           \* where RunMigrations stands: idle, loop, apply, set, done
    result,       \* what the last RunMigrations returned: none, ok, error
    lastVersion,  \* RunMigrations' local lastVersion
    migrations,   \* RunMigrations' local migrations (loaded and sorted)
    idx,          \* position of the range loop in migrations
    unit,         \* the goroutines of the current applyMigration
    errChan,      \* applyMigration's errChan
    runs,         \* number of runs started
    applied,      \* history: positions whose applyMigration was called, in order
    committed,    \* history: positions whose setLastAppliedVersion succeeded
    running,      \* history: goroutines spawned and not yet returned
    outcome,      \* history: how each task's goroutine ended in this run
    called,       \* history: tasks for which a store call was made in this run
    cursorWrites, \* history: setLastAppliedVersion calls of this run
    failedIdx,    \* history: position at which the run returned an error
    startTrack,   \* history: the tracking path's content when the run started
    csTrack,      \* history: the tracking path's content when the change-set started
    csStore,      \* history: the store when the change-set started
    prev,         \* history: result, dryRun and failed change-set of the previous run
    env,          \* the run's environment: the file that cannot be loaded, the outcome
                  \* of the store's cursor read and of its last cursor write
    applyErr,     \* history: what the last applyMigration returned
    gen           \* the migration generator: its mode, the Last-Known-State
                  \* snapshot, the calls made, and the record of the last call

vars == <<draft, dir, store, dryRun, cancelled, pc, result, lastVersion, migrations,
          idx, unit, errChan, runs, applied, committed, running, outcome, called,
          cursorWrites, failedIdx, startTrack, csTrack, csStore, prev, env, applyErr, gen>>

runVars == <<lastVersion, migrations, idx>>

\* The tracking path's content: <<>> when it holds no secret.
Track(s) == IF TrackingPath \in DOMAIN s THEN <<s[TrackingPath]>> ELSE <<>>

\* The Version Cursor: what getLastAppliedVersion reads when the read succeeds.
Cursor(s) == getLastAppliedVersion(s, TRUE).version

NewUnit == [st |-> "ready", retries |-> 0, err |-> "nil", calls |-> 0, left |-> 0,
            cancelSeen |-> FALSE, cancelCall |-> FALSE]

\* An error value: the goroutine that recorded it and its kind.
NilErr == [unit |-> 0, kind |-> "nil"]

\* No change-set of the previous run failed.
NoFailed == [version |-> 0, ok |-> {}, tasks |-> 0]

\* applyMigration's fan-out: draft B returns before it in a dry run.
SpawnUnits(d, dry, tasks) ==
    IF d = "B" /\ dry THEN <<>> ELSE [k \in 1..Len(tasks) |-> NewUnit]

\* No generator call was made.
NoGeneration ==
    [mode |-> "none", snapshot |-> <<>>, count |-> 0, last |-> <<>>]

\* The engine before its first run.
EngineInit ==
    /\ store = [p \in {} |-> NoData]
    /\ dryRun = FALSE
    /\ cancelled = FALSE
    /\ pc = "idle"
    /\ result = "none"
    /\ lastVersion = 0
    /\ migrations = <<>>
    /\ idx = 1
    /\ unit = <<>>
    /\ errChan = <<>>
    /\ runs = 0
    /\ applied = <<>>
    /\ committed = <<>>
    /\ running = {}
    /\ outcome = <<>>
    /\ called = {}
    /\ cursorWrites = 0
    /\ failedIdx = 0
    /\ startTrack = <<>>
    /\ csTrack = <<>>
    /\ csStore = [p \in {} |-> NoData]
    /\ prev = [result |-> "none", dryRun |-> FALSE, failed |-> NoFailed]
    /\ env = [badFile |-> 0, readOk |-> TRUE, writeOk |-> TRUE]
    /\ applyErr = NilErr

Init ==
    /\ draft \in Drafts
    /\ dir \in Directories
    /\ EngineInit
    /\ gen = NoGeneration

(***************************************************************************)
(* RunMigrations.                                                          *)
(***************************************************************************)
\* Mutants of the definitions below: the slips the claims must detect.
IsPendingMut(version, last) == version >= last

LoopContinuesMut(retries) == retries <= MaxAttempts

CtxDoneMut(isCancelled, retries) == isCancelled /\ retries = 0

AllUnitsDoneMut(d, u, ch) == \E k \in DOMAIN u : u[k].st = "done"

applyMigrationResultMut(ch) == "nil"

applyMigrationErrorLast(ch) == IF ch # <<>> THEN ch[Len(ch)] ELSE [unit |-> 0, kind |-> "nil"]

applyMigrationResultFirstUnit(ch) == IF ch # <<>> /\ ch[1].unit = 1 THEN ch[1].kind ELSE "nil"

LoadFailsNever(d, bad) == FALSE

AllUnitsDoneFirstError(d, u, ch) == ch # <<>> \/ \A k \in DOMAIN u : u[k].st = "done"

\* wg.Wait() that a goroutine ended by the cancellation never releases.
AllUnitsDoneButCancelled(d, u, ch) ==
    \A k \in DOMAIN u : u[k].st = "done" /\ ~u[k].cancelSeen

\* The range loop's test for a pending migration.
IsPending(version, last) == version > last

\* The retry loop's condition.
LoopContinues(retries) == retries < MaxAttempts

\* backoff := time.Duration(retries+1) * time.Second, in seconds.
BackoffSeconds(retries) == retries + 1

\* The select on ctx.Done() at the head of every attempt.
CtxDone(isCancelled, retries) == isCancelled

\* wg.Wait(): every goroutine has returned.  Draft C has no goroutines: its
\* loop returns at the first failed task.
AllUnitsDone(d, u, ch) ==
    IF d = "C" THEN ch # <<>> \/ \A k \in DOMAIN u : u[k].st = "done"
    ELSE \A k \in DOMAIN u : u[k].st = "done"

\* The range over the closed errChan: the first error received, or nil.
applyMigrationResult(ch) == IF ch # <<>> THEN ch[1].kind ELSE "nil"

\* The error value applyMigration returns.
applyMigrationError(ch) == IF ch # <<>> THEN ch[1] ELSE NilErr

\* Whether RunMigrations calls setLastAppliedVersion after a successful apply.
CallsSet(d, dry) == IF d = "B" THEN ~dry ELSE TRUE

\* The loop over the files: os.ReadFile or yaml.Unmarshal fails on file bad
\* (0: on none), and loadMigrations returns the error.
LoadFails(d, bad) == bad # 0

\* The change-set whose applyMigration made the run that just ended fail, and
\* the operations of it that succeeded.
FailedChangeSet ==
    IF pc = "done" /\ result = "error" /\ failedIdx > 0 /\ applyErr.kind # "nil"
    THEN [version |-> migrations[failedIdx].version,
          ok |-> {k \in DOMAIN outcome[failedIdx] : outcome[failedIdx][k] = "ok"},
          tasks |-> Len(migrations[failedIdx].tasks)]
    ELSE NoFailed

\* The start of RunMigrations: a new process with its own configuration and
\* context reads the cursor and loads the directory.
StartRun ==
    /\ pc \in {"idle", "done"}
    /\ runs < MaxRuns
    /\ \E dry \in (IF draft = "C" THEN {FALSE} ELSE BOOLEAN), readOk \in BOOLEAN,
          bad \in 0..Len(dir), ms \in loadMigrations(dir) :
        LET got == getLastAppliedVersion(store, readOk) IN
        /\ dryRun' = dry
        /\ env' = [badFile |-> bad, readOk |-> readOk, writeOk |-> TRUE]
        /\ IF got.err \/ LoadFails(dir, bad)
           THEN /\ pc' = "done"
                /\ result' = "error"
                /\ UNCHANGED runVars
                /\ outcome' = <<>>
           ELSE /\ pc' = "loop"
                /\ result' = "none"
                /\ lastVersion' = got.version
                /\ migrations' = ms
                /\ idx' = 1
                /\ outcome' = [i \in 1..Len(ms) |-> [k \in 1..Len(ms[i].tasks) |-> "notrun"]]
    /\ prev' = [result |-> result, dryRun |-> dryRun, failed |-> FailedChangeSet]
    /\ applyErr' = NilErr
    /\ runs' = runs + 1
    /\ cancelled' = FALSE
    /\ unit' = <<>>
    /\ errChan' = <<>>
    /\ applied' = <<>>
    /\ committed' = <<>>
    /\ running' = {}
    /\ called' = {}
    /\ cursorWrites' = 0
    /\ failedIdx' = 0
    /\ startTrack' = Track(store)
    /\ csTrack' = Track(store)
    /\ csStore' = store
    /\ UNCHANGED <<gen, draft, dir, store>>

\* One turn of the range loop: skip an applied version, call applyMigration
\* for a pending one, or return nil at the end of the slice.
LoopStep ==
    /\ pc = "loop"
    /\ IF idx > Len(migrations)
       THEN /\ pc' = "done"
            /\ result' = "ok"
            /\ UNCHANGED <<idx, unit, errChan, applied, running, csTrack, csStore>>
       ELSE IF ~IsPending(migrations[idx].version, lastVersion)
       THEN /\ idx' = idx + 1
            /\ UNCHANGED <<pc, result, unit, errChan, applied, running, csTrack, csStore>>
       ELSE /\ pc' = "apply"
            /\ unit' = SpawnUnits(draft, dryRun, migrations[idx].tasks)
            /\ errChan' = <<>>
            /\ applied' = Append(applied, idx)
            /\ running' = running \cup
                 IF draft = "C" THEN {} ELSE {<<idx, k>> : k \in DOMAIN unit'}
            /\ csTrack' = Track(store)
            /\ csStore' = store
            /\ UNCHANGED <<idx, result>>
    /\ UNCHANGED <<gen, draft, dir, store, dryRun, cancelled, lastVersion, migrations, runs,
                   committed, outcome, called, cursorWrites, failedIdx, startTrack, prev, env, applyErr>>

\* Mutant of MayStart: the goroutines take turns too.
MayStartInTurn(d, u, ch, k) == ch = <<>> /\ \A j \in 1..(k - 1) : u[j].st = "done"

\* Whether operation k may make its attempt now.  A goroutine waits for
\* nothing; the loop of draft C reaches an operation after the ones before it,
\* and returns at the first error.
MayStart(d, u, ch, k) ==
    d = "C" => ch = <<>> /\ \A j \in 1..(k - 1) : u[j].st = "done"

\* How a goroutine that ends now is recorded.
Ended(k, how) ==
    /\ outcome' = [outcome EXCEPT ![idx][k] = how]
    /\ running' = running \ {<<idx, k>>}

\* One attempt of goroutine k: the dry-run return, the ctx.Done() case, or
\* executeTask and what the loop does with its result.
Attempt(k) ==
    /\ pc = "apply"
    /\ k \in DOMAIN unit
    /\ unit[k].st = "ready"
    /\ MayStart(draft, unit, errChan, k)
    /\ LET u == unit[k]
           t == migrations[idx].tasks[k]
       IN
       IF draft = "A" /\ dryRun THEN
            /\ unit' = [unit EXCEPT ![k].st = "done"]
            /\ Ended(k, "dry")
            /\ UNCHANGED <<store, errChan, called>>
       ELSE IF draft = "A" /\ CtxDone(cancelled, u.retries) THEN
            /\ unit' = [unit EXCEPT ![k].st = "done", ![k].cancelSeen = TRUE]
            /\ errChan' = Append(errChan, [unit |-> k, kind |-> "cancelled"])
            /\ Ended(k, "cancelled")
            /\ UNCHANGED <<store, called>>
       ELSE \E callOk \in BOOLEAN :
            LET r  == executeTask(draft, store, t, callOk)
                u1 == [u EXCEPT !.err = r.err,
                                !.calls = IF r.called THEN @ + 1 ELSE @,
                                !.cancelSeen = @ \/ cancelled,
                                !.cancelCall = @ \/ (cancelled /\ r.called)]
                how == CASE r.err = "nil" -> "ok"
                         [] r.err = "store" -> "failed"
                         [] OTHER -> "unsupported"
            IN
            /\ store' = r.store
            /\ called' = IF r.called THEN called \cup {<<idx, k>>} ELSE called
            /\ IF draft = "A" THEN
                   IF r.err # "nil" /\ u.retries < LastRetry THEN
                        \* time.Sleep(backoff) before the next turn of the loop
                        /\ unit' = [unit EXCEPT ![k] = [u1 EXCEPT !.st = "sleep",
                                                                  !.left = BackoffSeconds(u.retries)]]
                        /\ UNCHANGED <<errChan, outcome, running>>
                   ELSE IF LoopContinues(u.retries + 1) THEN
                        \* break leaves the select only: the loop goes on
                        /\ unit' = [unit EXCEPT ![k] = [u1 EXCEPT !.retries = @ + 1]]
                        /\ UNCHANGED <<errChan, outcome, running>>
                   ELSE
                        /\ unit' = [unit EXCEPT ![k] = [u1 EXCEPT !.retries = @ + 1,
                                                                  !.st = "done"]]
                        /\ errChan' = IF r.err # "nil"
                                      THEN Append(errChan, [unit |-> k, kind |-> r.err])
                                      ELSE errChan
                        /\ Ended(k, how)
               ELSE
                   /\ unit' = [unit EXCEPT ![k] = [u1 EXCEPT !.retries = @ + 1,
                                                             !.st = "done"]]
                   /\ errChan' = IF r.err # "nil"
                                 THEN Append(errChan, [unit |-> k, kind |-> r.err])
                                 ELSE errChan
                   /\ Ended(k, how)
    /\ UNCHANGED <<gen, draft, dir, dryRun, cancelled, pc, result, lastVersion, migrations, idx,
                   runs, applied, committed, cursorWrites, failedIdx, startTrack, csTrack, csStore,
                   prev, env, applyErr>>

\* A second of time.Sleep(backoff) passes; nothing but time ends the sleep.
Tick(k) ==
    /\ pc = "apply"
    /\ k \in DOMAIN unit
    /\ unit[k].st = "sleep"
    /\ unit[k].left > 0
    /\ unit' = [unit EXCEPT ![k].left = @ - 1]
    /\ UNCHANGED <<gen, draft, dir, store, dryRun, cancelled, pc, result, lastVersion,
                   migrations, idx, errChan, runs, applied, committed, running, outcome,
                   called, cursorWrites, failedIdx, startTrack, csTrack, csStore, prev, env, applyErr>>

\* time.Sleep(backoff) returns and the loop increments retries.
Backoff(k) ==
    /\ pc = "apply"
    /\ k \in DOMAIN unit
    /\ unit[k].st = "sleep"
    /\ unit[k].left = 0
    /\ unit' = [unit EXCEPT ![k].st = "ready", ![k].retries = @ + 1]
    /\ UNCHANGED <<gen, draft, dir, store, dryRun, cancelled, pc, result, lastVersion,
                   migrations, idx, errChan, runs, applied, committed, running, outcome,
                   called, cursorWrites, failedIdx, startTrack, csTrack, csStore, prev, env, applyErr>>

\* wg.Wait(), close(errChan) and the range over errChan: applyMigration
\* returns the first error received, or nil.
Collect ==
    /\ pc = "apply"
    /\ AllUnitsDone(draft, unit, errChan)
    /\ applyErr' = applyMigrationError(errChan)
    /\ IF applyMigrationResult(errChan) # "nil"
       THEN /\ pc' = "done"
            /\ result' = "error"
            /\ failedIdx' = idx
       ELSE /\ pc' = "set"
            /\ UNCHANGED <<result, failedIdx>>
    /\ UNCHANGED <<gen, draft, dir, store, dryRun, cancelled, lastVersion, migrations, idx,
                   unit, errChan, runs, applied, committed, running, outcome, called,
                   cursorWrites, startTrack, csTrack, csStore, prev, env>>

\* setLastAppliedVersion(migration.Version) after a successful applyMigration.
SetVersion ==
    /\ pc = "set"
    /\ IF ~CallsSet(draft, dryRun)
       THEN /\ pc' = "loop"
            /\ idx' = idx + 1
            /\ UNCHANGED <<store, result, committed, cursorWrites, failedIdx, env>>
       ELSE \E writeOk \in BOOLEAN :
            LET w == setLastAppliedVersion(store, migrations[idx].version, writeOk) IN
            /\ store' = w.store
            /\ env' = [env EXCEPT !.writeOk = writeOk]
            /\ cursorWrites' = cursorWrites + 1
            /\ IF w.err
               THEN /\ pc' = "done"
                    /\ result' = "error"
                    /\ failedIdx' = idx
                    /\ UNCHANGED <<idx, committed>>
               ELSE /\ pc' = "loop"
                    /\ idx' = idx + 1
                    /\ committed' = Append(committed, idx)
                    /\ UNCHANGED <<result, failedIdx>>
    /\ UNCHANGED <<gen, draft, dir, dryRun, cancelled, lastVersion, migrations, unit, errChan,
                   runs, applied, running, outcome, called, startTrack, csTrack, csStore, prev,
                   applyErr>>

\* The signal handler of main calls cancel().
Cancel ==
    /\ pc \in {"loop", "apply", "set"}
    /\ ~cancelled
    /\ draft # "C"
    /\ cancelled' = TRUE
    /\ UNCHANGED <<gen, draft, dir, store, dryRun, pc, result, lastVersion, migrations, idx,
                   unit, errChan, runs, applied, committed, running, outcome, called,
                   cursorWrites, failedIdx, startTrack, csTrack, csStore, prev, env, applyErr>>

\* The positions a task can have in a migration of the directories.
TaskSlots ==
    1..MaxOf(UNION {{Len(d[i].tasks) : i \in DOMAIN d} : d \in Directories})

Next ==
    \/ StartRun
    \/ LoopStep
    \/ \E k \in TaskSlots : Attempt(k)
    \/ \E k \in TaskSlots : Tick(k)
    \/ \E k \in TaskSlots : Backoff(k)
    \/ Collect
    \/ SetVersion
    \/ Cancel

Spec == Init /\ [][Next]_vars

TypeOK ==
    /\ pc \in {"idle", "loop", "apply", "set", "done"}
    /\ result \in {"none", "ok", "error"}
    /\ \A k \in DOMAIN unit : unit[k].retries \in 0..MaxAttempts

(***************************************************************************)
(* Vocabulary of the claims.                                               *)
(***************************************************************************)
\* The cursor value a tracking-path content reads as.
CursorOf(tr) ==
    getLastAppliedVersion(IF tr = <<>> THEN [p \in {} |-> NoData]
                          ELSE [p \in {TrackingPath} |-> tr[1]], TRUE).version

\* The run got past reading the cursor and loading the directory.
Loaded == outcome # <<>>

VersionAt(i) == migrations[i].version

\* Every operation of the change-set at position i ended with a successful store call.
FullyOk(i) == \A k \in DOMAIN outcome[i] : outcome[i][k] = "ok"

\* The change-set at position i was pending when the run started.
PendingAtStart(i) == VersionAt(i) > CursorOf(startTrack)

\* The cursor write of position i is the call that failed.
SetFailed(i) == pc = "done" /\ result = "error" /\ failedIdx = i /\ errChan = <<>>

\* Positions that, with every pending position before them, succeeded in full.
GoodPrefix ==
    {i \in 1..Len(migrations) :
        /\ PendingAtStart(i)
        /\ \A j \in 1..i : PendingAtStart(j) => FullyOk(j) /\ ~SetFailed(j)}

ExpectedCursor ==
    IF ~Loaded \/ GoodPrefix = {} THEN CursorOf(startTrack)
    ELSE MaxOf({VersionAt(i) : i \in GoodPrefix})

CommittedSet == {committed[n] : n \in 1..Len(committed)}

\* Store calls of this run that are a Write or a Delete.
MutatingCalls ==
    {c \in called : migrations[c[1]].tasks[c[2]].method
                        \in WriteMethods(draft) \cup DeleteMethods(draft)}

(***************************************************************************)
(* C1.  Monotonic application: when a run has completed, the Version       *)
(* Cursor equals the highest version such that it and all pending          *)
(* change-sets with lower versions had every operation succeed, and the    *)
(* change-sets were applied in strictly increasing version order.          *)
(* Fails: in a dry run draft A writes the cursor for change-sets none of   *)
(* whose operations ran.                                                   *)
(***************************************************************************)
C1_MonotonicApplication ==
    pc = "done" =>
        /\ Cursor(store) = ExpectedCursor
        /\ \A a, b \in 1..Len(applied) :
              a < b => VersionAt(applied[a]) < VersionAt(applied[b])

(***************************************************************************)
(* C2.  The cursor is written with value v only after every operation of   *)
(* the change-set with version v has succeeded in the current run.         *)
(* Fails: draft A calls setLastAppliedVersion in a dry run.                *)
(***************************************************************************)
C2_SetOnlyAfterAllSucceeded ==
    \A i \in CommittedSet : FullyOk(i)

(***************************************************************************)
(* C3.  When an operation still fails on its last attempt, the change-set  *)
(* fails, the engine returns an error and the cursor keeps the value it    *)
(* had before that change-set was started.                                 *)
(* Fails: a sibling task written to the tracking path changes the cursor.  *)
(***************************************************************************)
C3_FailedChangeSetKeepsCursor ==
    (pc \in {"apply", "set", "done"} /\ Loaded /\ idx <= Len(migrations)
        /\ \E k \in DOMAIN outcome[idx] : outcome[idx][k] = "failed")
    => /\ pc # "set"
       /\ pc = "done" => result = "error" /\ failedIdx = idx
       /\ pc = "done" => Cursor(store) = CursorOf(csTrack)

(***************************************************************************)
(* C4.  Dry-run no-op: with dry-run enabled a run issues no Write and no   *)
(* Delete to the store and leaves the Version Cursor unchanged.            *)
(* Fails: draft A calls setLastAppliedVersion in a dry run.                *)
(***************************************************************************)
C4_DryRunNoOp ==
    (dryRun /\ pc \in {"loop", "apply", "set", "done"}) =>
        /\ MutatingCalls = {}
        /\ Track(store) = startTrack

(***************************************************************************)
(* C5.  Idempotence of re-run, as amended: after a run that was not a dry  *)
(* run has completed successfully, a further run over the unchanged cursor *)
(* and directory makes no store call for any operation of a change-set and *)
(* does not write the cursor.                                              *)
(***************************************************************************)
C5_RerunIdempotent ==
    (runs >= 2 /\ prev.result = "ok" /\ ~prev.dryRun) =>
        /\ called = {}
        /\ cursorWrites = 0
        /\ Track(store) = startTrack

\* C5 as stated: after any run that completed successfully.
C5_RerunIdempotentOrig ==
    (runs >= 2 /\ prev.result = "ok") =>
        /\ called = {}
        /\ cursorWrites = 0
        /\ Track(store) = startTrack

\* A second run has gone through a directory of applied change-sets.
C5_Witness ==
    /\ runs = 2 /\ prev.result = "ok" /\ ~prev.dryRun
    /\ pc = "done" /\ result = "ok"
    /\ Len(migrations) = 2 /\ lastVersion = 2

(***************************************************************************)
(* C6.  Stop-on-error: if applying the change-set at some position fails,  *)
(* or its cursor write fails, the run returns an error, no operation of a  *)
(* later change-set is executed in that run and no further cursor write    *)
(* happens.                                                                *)
(***************************************************************************)
C6_StopOnError ==
    /\ (pc \in {"loop", "set", "done"} /\ errChan # <<>>) =>
            pc = "done" /\ result = "error"
    /\ (pc = "done" /\ result = "error" /\ Loaded /\ failedIdx > 0) =>
        /\ applied # <<>> /\ applied[Len(applied)] = failedIdx
        /\ \A c \in called :
              c[1] <= failedIdx /\ VersionAt(c[1]) <= VersionAt(failedIdx)
        /\ \A i \in CommittedSet : i < failedIdx
        /\ cursorWrites <= Len(committed) + 1

\* A run has stopped at the first of two pending change-sets.
C6_Witness ==
    /\ pc = "done" /\ result = "error" /\ failedIdx = 1
    /\ Len(migrations) = 2 /\ PendingAtStart(2)
    /\ errChan # <<>>

(***************************************************************************)
(* C7.  Change-sets are applied strictly sequentially: while an operation  *)
(* of one change-set runs, no goroutine of another change-set is alive,    *)
(* and every change-set applied before it in this run has had its cursor   *)
(* write completed.                                                        *)
(***************************************************************************)
C7_Sequential ==
    /\ \A u \in running : pc = "apply" /\ u[1] = idx
    /\ \A c \in called : \A n \in 1..Len(applied) :
          applied[n] < c[1] => applied[n] \in CommittedSet

\* An operation of the second change-set has made its store call.
C7_Witness ==
    /\ pc = "apply" /\ Len(applied) = 2
    /\ \E k \in DOMAIN unit : <<applied[2], k>> \in called /\ unit[k].st # "done"

(***************************************************************************)
(* C8.  The Version Cursor never decreases: no step stores a cursor value  *)
(* smaller than the one stored before it.                                  *)
(* Fails: a task written to the tracking path stores a smaller version.    *)
(***************************************************************************)
C8_CursorNeverDecreases == [][Cursor(store') >= Cursor(store)]_vars

(***************************************************************************)
(* C9.  Retry bound: within one application of a change-set each operation *)
(* makes at most 3 store calls; a goroutine whose last attempt failed has  *)
(* reported its failure and is done.                                       *)
(***************************************************************************)
C9_RetryBound ==
    \A k \in DOMAIN unit :
        /\ unit[k].calls <= 3
        /\ unit[k].calls = 3 =>
              /\ unit[k].st = "done"
              /\ unit[k].err = "store" => \E n \in 1..Len(errChan) : errChan[n].unit = k

\* A goroutine has failed three times.
C9_Witness ==
    \E k \in DOMAIN unit :
        unit[k].calls = 3 /\ unit[k].err = "store" /\ unit[k].st = "done"

(***************************************************************************)
(* C10.  Cancellation is re-checked before every attempt of the retry      *)
(* loop (draft A): a goroutine that finds the context cancelled at the     *)
(* head of an attempt makes no store call then or later, ends with a       *)
(* cancellation error, and the change-set fails.                           *)
(***************************************************************************)
C10_CancelChecked ==
    draft = "A" =>
        \A k \in DOMAIN unit :
            /\ ~unit[k].cancelCall
            /\ unit[k].cancelSeen =>
                  /\ unit[k].st = "done"
                  /\ Loaded /\ outcome[idx][k] = "cancelled"
                  /\ \E n \in 1..Len(errChan) :
                        errChan[n] = [unit |-> k, kind |-> "cancelled"]
                  /\ pc \in {"apply", "done"}
                  /\ pc = "done" => result = "error" /\ failedIdx = idx

\* A goroutine met the cancellation at a retry, after a failed attempt.
C10_Witness ==
    /\ draft = "A" /\ pc = "done"
    /\ \E k \in DOMAIN unit :
          unit[k].cancelSeen /\ unit[k].retries > 0 /\ unit[k].calls > 0

(***************************************************************************)
(* C11.  A goroutine that is in its backoff sleep when the context is      *)
(* cancelled aborts promptly: no further second of the backoff passes for  *)
(* it, and it makes no further store call.                                 *)
(* Fails: time.Sleep does not watch the context; the goroutine sleeps the  *)
(* backoff out and meets the cancellation only at the next select.         *)
(***************************************************************************)
C11_BackoffAbortsOnCancel ==
    [][\A k \in DOMAIN unit :
          (cancelled /\ unit[k].st = "sleep" /\ k \in DOMAIN unit') =>
              /\ ~(unit'[k].st = "sleep" /\ unit'[k].left < unit[k].left)
              /\ unit'[k].calls = unit[k].calls]_vars

(***************************************************************************)
(* C12.  All spawned units are drained: once applyMigration has returned,  *)
(* with nil or with an error, no goroutine of the change-set is running,   *)
(* sleeping or blocked; every goroutine sends at most one error, so the    *)
(* buffered errChan never blocks a sender.  In the sequential draft a task *)
(* is either finished or was never started.                                *)
(***************************************************************************)
C12_AllUnitsDrained ==
    /\ pc # "apply" =>
          /\ running = {}
          /\ \A k \in DOMAIN unit :
                \/ unit[k].st = "done"
                \/ draft = "C" /\ unit[k].st = "ready" /\ unit[k].retries = 0
    /\ Len(errChan) <= Len(unit)
    /\ \A k \in DOMAIN unit :
          Cardinality({n \in 1..Len(errChan) : errChan[n].unit = k}) <= 1

\* applyMigration has returned an error after one goroutine failed or was
\* cancelled and another one went on to succeed.
C12_Witness ==
    /\ pc = "done" /\ result = "error" /\ draft # "C" /\ applyErr.kind # "nil"
    /\ Loaded
    /\ \E j, k \in DOMAIN unit :
          /\ outcome[idx][j] \in {"failed", "cancelled"}
          /\ outcome[idx][k] = "ok"

\* How a goroutine's last attempt can end in failure.
FailureKinds == {"failed", "cancelled", "unsupported"}

\* The outcome a goroutine that recorded an error of this kind ended with.
OutcomeOfKind(kind) ==
    CASE kind = "store" -> "failed"
      [] kind = "cancelled" -> "cancelled"
      [] OTHER -> "unsupported"

\* applyMigration has returned for the change-set at idx.
ApplyReturned ==
    \/ pc = "set"
    \/ /\ pc = "done" /\ Loaded /\ idx <= Len(migrations)
       /\ applied # <<>> /\ applied[Len(applied)] = idx

(***************************************************************************)
(* C13.  applyMigration returns an error if and only if the last attempt   *)
(* of at least one operation failed or the operation was cancelled; the    *)
(* error is the first one recorded in errChan, recorded by an operation    *)
(* that failed; it returns nil exactly when every operation finished       *)
(* without error.  A failed read fails the change-set like any other       *)
(* failed operation.                                                       *)
(***************************************************************************)
C13_ApplyErrorIffUnitFailed ==
    ApplyReturned =>
        /\ applyErr.kind # "nil" <=>
              \E k \in DOMAIN outcome[idx] : outcome[idx][k] \in FailureKinds
        /\ applyErr.kind = "nil" <=>
              \A k \in DOMAIN outcome[idx] :
                  \/ outcome[idx][k] \in {"ok", "dry"}
                  \/ unit = <<>> /\ outcome[idx][k] = "notrun"
        /\ applyErr.kind # "nil" =>
              /\ pc = "done" /\ result = "error" /\ failedIdx = idx
              /\ errChan # <<>> /\ applyErr = errChan[1]
              /\ outcome[idx][applyErr.unit] = OutcomeOfKind(applyErr.kind)
        /\ pc = "set" => applyErr.kind = "nil"

\* A change-set has failed because its read failed on the last attempt.
C13_Witness ==
    /\ pc = "done" /\ result = "error" /\ Loaded /\ idx <= Len(migrations)
    /\ applyErr.kind = "store"
    /\ migrations[idx].tasks[applyErr.unit].method \in ReadMethods(draft)
    /\ unit[applyErr.unit].calls = MaxAttempts

\* The position of the change-set the last applyMigration was called for.
LastApplied == applied[Len(applied)]

\* The effect of the operation at position i, task k is in the store.
EffectPresent(i, k) ==
    LET t == migrations[i].tasks[k] IN
    /\ t.method \in WriteMethods(draft) =>
          t.path \in DOMAIN store /\ store[t.path] = t.data
    /\ t.method \in DeleteMethods(draft) => t.path \notin DOMAIN store

C15_CursorSingleWriter ==
    [][Track(store') # Track(store) => pc = "set" /\ cursorWrites' = cursorWrites + 1]_vars

\* ms holds every file of d as often as d does, in nondecreasing version order.
SortedCopyOf(ms, d) ==
    /\ Len(ms) = Len(d)
    /\ \A i \in DOMAIN d :
          Cardinality({j \in DOMAIN ms : ms[j] = d[i]})
              = Cardinality({j \in DOMAIN d : d[j] = d[i]})
    /\ \A a, b \in DOMAIN ms : a < b => ms[a].version <= ms[b].version

\* The directory d with its files listed in the opposite order.
Reversed(d) == [i \in 1..Len(d) |-> d[Len(d) + 1 - i]]

(***************************************************************************)
(* C16.  loadMigrations returns every change-set of the directory exactly  *)
(* once, sorted ascending by version, in whatever order the files are      *)
(* listed: checked on the slice the run loaded and on every result of      *)
(* loading the directory as listed and listed backwards.                   *)
(***************************************************************************)
C16_LoadSortedComplete ==
    /\ Loaded => SortedCopyOf(migrations, dir)
    /\ pc = "idle" =>
          /\ \A ms \in loadMigrations(dir) : SortedCopyOf(ms, dir)
          /\ \A ms \in loadMigrations(Reversed(dir)) : SortedCopyOf(ms, dir)

\* A run has loaded three files that were listed out of version order.
C16_Witness ==
    /\ Loaded /\ Len(dir) = 3
    /\ dir[1].version > dir[2].version
    /\ migrations # dir
    /\ migrations[1].version = 1 /\ migrations[3].version = 3

\* Two files of the directory declare the same version.
HasDuplicateVersions(d) ==
    \E i, j \in DOMAIN d : i # j /\ d[i].version = d[j].version

(***************************************************************************)
(* C17.  If two files of the directory declare the same version, the load  *)
(* fails: the run returns an error, no operation is executed, and no two   *)
(* change-sets with the same version are applied in one run.               *)
(* Fails: loadMigrations has no duplicate check; both files are loaded     *)
(* and applied.                                                            *)
(***************************************************************************)
C17_DuplicateVersionRejected ==
    (runs > 0 /\ HasDuplicateVersions(dir)) =>
        /\ pc = "done" /\ result = "error"
        /\ ~Loaded
        /\ called = {}
        /\ \A a, b \in 1..Len(applied) :
              a # b => VersionAt(applied[a]) # VersionAt(applied[b])

(***************************************************************************)
(* C18.  An unreadable or unparseable change-set file is a hard failure:   *)
(* in a run in which a file of the directory cannot be read or parsed,     *)
(* the load returns an error, the run returns an error, no operation of    *)
(* any change-set is executed and the cursor is not written.               *)
(***************************************************************************)
C18_BadFileHardFailure ==
    (runs > 0 /\ env.badFile # 0) =>
        /\ pc = "done" /\ result = "error"
        /\ ~Loaded
        /\ applied = <<>> /\ called = {}
        /\ cursorWrites = 0
        /\ Track(store) = startTrack

\* A run over applied change-sets has met a bad file, the cursor read being fine.
C18_Witness ==
    /\ runs = 2 /\ env.badFile = 2 /\ env.readOk
    /\ pc = "done" /\ result = "error"
    /\ prev.result = "error" /\ Cursor(store) = 1

TrackerVersions == (0 - MaxVersion)..MaxVersion

(***************************************************************************)
(* C19.  Version tracker round trip: for every version v,                  *)
(* setLastAppliedVersion(v) followed by getLastAppliedVersion, with no     *)
(* other write to the tracking path in between, returns v without error;   *)
(* getLastAppliedVersion on a tracking path that holds nothing returns 0.  *)
(* Checked for every v of TrackerVersions on every store a run starts     *)
(* from or ends with, and on the cursor a run has just written.            *)
(***************************************************************************)
C19_TrackerRoundTrip ==
    /\ pc \in {"idle", "done"} =>
          \A v \in TrackerVersions :
              getLastAppliedVersion(setLastAppliedVersion(store, v, TRUE).store, TRUE)
                  = [err |-> FALSE, version |-> v]
    /\ TrackingPath \notin DOMAIN store =>
          getLastAppliedVersion(store, TRUE) = [err |-> FALSE, version |-> 0]
    /\ (pc = "loop" /\ Loaded /\ committed # <<>> /\ idx = committed[Len(committed)] + 1) =>
          getLastAppliedVersion(store, TRUE)
              = [err |-> FALSE, version |-> VersionAt(committed[Len(committed)])]

\* A run has read the version the run before it had set, and has set the next.
C19_Witness ==
    /\ runs = 2 /\ pc = "loop" /\ Loaded
    /\ lastVersion = 1 /\ CursorOf(startTrack) = 1
    /\ committed # <<>> /\ Cursor(store) = 2

(***************************************************************************)
(* C20.  Errors on the tracking path are surfaced: when the cursor read    *)
(* of a run fails, the run returns an error and executes no operation;     *)
(* when the cursor write for a version fails after its operations          *)
(* succeeded, the run returns an error at that version, the version is     *)
(* not recorded as applied, and no later version is started.               *)
(***************************************************************************)
C20_TrackerErrorsSurfaced ==
    /\ (runs > 0 /\ ~env.readOk) =>
          /\ pc = "done" /\ result = "error"
          /\ applied = <<>> /\ called = {}
          /\ cursorWrites = 0
    /\ (Loaded /\ ~env.writeOk) =>
          /\ pc = "done" /\ result = "error" /\ failedIdx = idx
          /\ applied # <<>> /\ LastApplied = idx
          /\ idx \notin CommittedSet
          /\ \A c \in called : c[1] <= idx

\* The cursor write of the first of two pending versions has failed after
\* both of its operations succeeded.
C20_Witness ==
    /\ Loaded /\ ~env.writeOk /\ pc = "done"
    /\ Len(migrations) = 2 /\ idx = 1 /\ PendingAtStart(2)
    /\ Len(migrations[1].tasks) = 2 /\ FullyOk(1)

\* The executor of draft d has no case for this method.
Unsupported(d, method) ==
    method \notin ReadMethods(d) \cup WriteMethods(d) \cup DeleteMethods(d)

(***************************************************************************)
(* C28.  An operation whose method is unsupported is not retried: its      *)
(* goroutine makes no store call, never sleeps a backoff, makes one        *)
(* attempt only, and after that attempt it is done with its error          *)
(* recorded, so that the change-set fails.                                 *)
(* Fails: the retry loop of draft A retries every error, the unsupported   *)
(* method included, with both backoffs.                                    *)
(***************************************************************************)
C28_UnsupportedNotRetried ==
    (pc = "apply" /\ Loaded) =>
        \A k \in DOMAIN unit :
            Unsupported(draft, migrations[idx].tasks[k].method) =>
                /\ unit[k].calls = 0
                /\ unit[k].st # "sleep"
                /\ unit[k].retries <= 1
                /\ (unit[k].retries = 1 /\ ~dryRun) =>
                      /\ unit[k].st = "done"
                      /\ \E n \in 1..Len(errChan) :
                            errChan[n] = [unit |-> k, kind |-> "unsupported"]

(***************************************************************************)
(* The migration generator.  Two generators are in the repository; the     *)
(* field gen.mode says which one a behaviour of GenSpec runs:              *)
(*   "schema"       src/cmd/vault-migrations/main.go  (handleMigration-    *)
(*                  Generation, getCurrentState, generateNewTasks)         *)
(*   "intelligent"  src/pkg/migrations/generator.go                        *)
(*                  (GenerateIntelligentMigration, compareConfigs)         *)
(*                                                                         *)
(* Configuration values (interface{}) are tagged: a scalar carries its Go  *)
(* type and its text, a mapping carries its entries sorted by key.         *)
(***************************************************************************)
StrVal(s) == [t |-> "str", s |-> s, m |-> <<>>]

IntVal(s) == [t |-> "int", s |-> s, m |-> <<>>]

NilValue == [t |-> "nil", s |-> "<nil>", m |-> <<>>]

Map(entries) == [t |-> "map", s |-> "", m |-> entries]

Entry(k, v) == [key |-> k, val |-> v]

IsMap(v) == v.t = "map"

HasKey(v, k) == \E i \in DOMAIN v.m : v.m[i].key = k

Lookup(v, k) == v.m[CHOOSE i \in DOMAIN v.m : v.m[i].key = k].val

\* fmt.Sprintf("%v", v): a scalar prints as its text, whatever its type; a
\* mapping prints as map[k:v k:v] with its keys sorted.
RECURSIVE Sprintf(_)
RECURSIVE SprintfEntries(_, _)
SprintfEntries(entries, i) ==
    IF i > Len(entries) THEN <<>>
    ELSE (IF i > 1 THEN <<" ">> ELSE <<>>)
            \o <<entries[i].key, ":">> \o Sprintf(entries[i].val)
            \o SprintfEntries(entries, i + 1)

Sprintf(v) ==
    IF IsMap(v) THEN <<"map[">> \o SprintfEntries(v.m, 1) \o <<"]">>
    ELSE <<v.s>>

\* Mutant of configValuesEqual: only mappings of the same size are compared.
configValuesEqualBySize(a, b) == Len(a.m) = Len(b.m)

\* configValuesEqual.
configValuesEqual(a, b) ==
    IF a = NilValue /\ b = NilValue THEN TRUE
    ELSE IF a = NilValue \/ b = NilValue THEN FALSE
    ELSE Sprintf(a) = Sprintf(b)

\* toMapStringInterface.
toMapStringInterface(v) == IF IsMap(v) THEN v ELSE Map(<<Entry("value", v)>>)

\* The values of the behaviours.
ValueA == Map(<<Entry("k", StrVal("v1"))>>)
ValueB == Map(<<Entry("k", StrVal("v2"))>>)
ValueInt == Map(<<Entry("k", IntVal("1"))>>)
ValueStr == Map(<<Entry("k", StrVal("1"))>>)
ValueData == Map(<<Entry("data", ValueA)>>)
ValueScalar == StrVal("approle")
NoPayload == Map(<<>>)

\* The path policy.  A path is matched by its segments.
Segments(path) ==
    CASE path = AppPath -> <<"secret", "data", "app">>
      [] path = AuthPath -> <<"auth", "approle">>
      [] OTHER -> <<path>>

HasPrefix(path, prefix) ==
    /\ Len(Segments(path)) > Len(prefix)
    /\ SubSeq(Segments(path), 1, Len(prefix)) = prefix

PolicyMethods == {"read", "write", "delete", "list"}

\* Mutant of getPathConfig: no path is wrapped.
getPathConfigNoWrap(path) == [DataWrapper |-> FALSE, Methods |-> PolicyMethods]

\* getPathConfig.
getPathConfig(path) ==
    IF HasPrefix(path, <<"secret", "data">>)
    THEN [DataWrapper |-> TRUE, Methods |-> PolicyMethods]
    ELSE [DataWrapper |-> FALSE, Methods |-> PolicyMethods]

GenPaths == <<AppPath, AuthPath>>

(***************************************************************************)
(* Files of the migrations directory.  dir lists them as filepath.Glob     *)
(* does, sorted by name.  A name is a sequence of symbols: the stem and    *)
(* the digits that follow it; the extension, common to all, is left out.   *)
(***************************************************************************)
File(name, v, ts) == [name |-> name, version |-> v, tasks |-> ts]

Alphabet == <<"0", "1", "2", "3", "4", "5", "6", "7", "8", "9", "a", "b", "migration_">>

Rank(c) == CHOOSE i \in DOMAIN Alphabet : Alphabet[i] = c

\* a < b for file names, as sort.Strings and Glob order them.
RECURSIVE NameLess(_, _)
NameLess(a, b) ==
    IF Len(a) = 0 THEN Len(b) > 0
    ELSE IF Len(b) = 0 THEN FALSE
    ELSE IF a[1] = b[1] THEN NameLess(Tail(a), Tail(b))
    ELSE Rank(a[1]) < Rank(b[1])

\* fmt.Sprintf("migration_%03d.yaml", v) of handleMigrationGeneration.
SchemaFileName(v) ==
    LET digits == Itoa(v) IN
    <<"migration_">> \o [i \in 1..(IF Len(digits) < 3 THEN 3 - Len(digits) ELSE 0) |-> "0"]
                     \o digits

\* sanitizeFilename(fmt.Sprintf("migration_%d", v)) + ".yaml" of GenerateMigration.
IntelligentFileName(v) == <<"migration_">> \o Itoa(v)

\* os.WriteFile / ioutil.WriteFile: a file of that name is replaced, a new
\* name takes its place in the listing.
WriteFile(d, f) ==
    IF \E i \in DOMAIN d : d[i].name = f.name
    THEN [i \in DOMAIN d |-> IF d[i].name = f.name THEN f ELSE d[i]]
    ELSE LET before == SelectSeq(d, LAMBDA g : NameLess(g.name, f.name))
             after  == SelectSeq(d, LAMBDA g : NameLess(f.name, g.name))
         IN  before \o <<f>> \o after

\* The versions of the files of a directory.
Versions(d) == {d[i].version : i \in DOMAIN d}

\* Mutant of getNextMigrationVersion: the number of files, plus one.
NextVersionByCount(d) == Len(d) + 1

\* getNextMigrationVersion: 1 without files, else the largest version above
\* 0, plus one.
getNextMigrationVersion(d) == IF d = <<>> THEN 1 ELSE MaxOf(Versions(d) \cup {0}) + 1

\* getLatestVersion: 0 without files, else the last of the sorted versions.
getLatestVersion(d) == IF d = <<>> THEN 0 ELSE MaxOf(Versions(d))

\* The directories generation starts from.
GenDirectories ==
    { <<>>,
      \* names out of version order, versions with a gap
      << File(<<"a">>, 3, <<Task(AppPath, "delete", NoPayload)>>),
         File(<<"b">>, 1, <<Task(AppPath, "write", ValueData)>>) >>,
      \* a name that does not carry the version of its file
      << File(IntelligentFileName(2), 1, <<Task(AuthPath, "write", ValueA)>>) >> }

(***************************************************************************)
(* The schema generator (main.go).  The current state is a function from   *)
(* the paths that have an entry to the last write task replayed for them.  *)
(* A schema entry's Method, a comma-separated list, is kept as the         *)
(* sequence strings.Split and TrimSpace make of it.                        *)
(***************************************************************************)
NoState == [p \in {} |-> Task("", "", NoPayload)]

SchemaEntry(p, ms, d) == [path |-> p, methods |-> ms, data |-> d]

\* The loop over a migration's tasks in getCurrentState.
RECURSIVE ReplayTasks(_, _, _)
ReplayTasks(state, ts, i) ==
    IF i > Len(ts) THEN state
    ELSE LET t == ts[i]
             next == IF t.method = "write"
                     THEN [p \in (DOMAIN state) \cup {t.path} |->
                              IF p = t.path THEN t ELSE state[p]]
                     ELSE IF t.method = "delete"
                     THEN [p \in (DOMAIN state) \ {t.path} |-> state[p]]
                     ELSE state
         IN  ReplayTasks(next, ts, i + 1)

\* The loop over the files, in the order of their names.
RECURSIVE ReplayFiles(_, _, _)
ReplayFiles(state, d, i) ==
    IF i > Len(d) THEN state
    ELSE ReplayFiles(ReplayTasks(state, d[i].tasks, 1), d, i + 1)

\* Mutant of getCurrentState: the last file is not replayed.
getCurrentStateStale(d) ==
    ReplayFiles(NoState, SubSeq(d, 1, Len(d) - 1), 1)

\* getCurrentState.
getCurrentState(d) == ReplayFiles(NoState, d, 1)

\* Mutant of dataChanged: nothing is unwrapped.
dataChangedAsIs(current, desired) == current # desired

\* dataChanged of generateNewTasks: a "data" mapping of the current value is
\* unwrapped, then reflect.DeepEqual.
dataChanged(current, desired) ==
    LET currentData == IF HasKey(current, "data") /\ IsMap(Lookup(current, "data"))
                       THEN Lookup(current, "data") ELSE current
    IN  currentData # desired

\* The methods of a schema entry that the path's policy allows.
validMethods(entry) ==
    SelectSeq(entry.methods, LAMBDA m : m \in getPathConfig(entry.path).Methods)

SeqToSet(sq) == {sq[i] : i \in DOMAIN sq}

\* needsUpdate of generateNewTasks.
needsUpdate(entry, currentState) ==
    IF entry.path \notin DOMAIN currentState THEN TRUE
    ELSE LET current == currentState[entry.path]
             currentMethodSet == {current.method}
             desiredMethodSet == SeqToSet(validMethods(entry))
         IN  \/ currentMethodSet # desiredMethodSet
             \/ "write" \in desiredMethodSet /\ dataChanged(current.data, entry.data)

\* The tasks generateNewTasks emits for one schema entry.
EntryTasks(entry, currentState) ==
    IF ~needsUpdate(entry, currentState) THEN <<>>
    ELSE LET ms == validMethods(entry) IN
         [i \in DOMAIN ms |->
            Task(entry.path, ms[i],
                 IF ms[i] = "write"
                 THEN IF getPathConfig(entry.path).DataWrapper
                      THEN Map(<<Entry("data", entry.data)>>)
                      ELSE entry.data
                 ELSE NoPayload)]

RECURSIVE UpdateTasks(_, _, _)
UpdateTasks(desiredPaths, currentState, i) ==
    IF i > Len(desiredPaths) THEN <<>>
    ELSE EntryTasks(desiredPaths[i], currentState)
            \o UpdateTasks(desiredPaths, currentState, i + 1)

\* The deletions: one for every path of the current state the schema lacks
\* (the range over the map, taken in the order of GenPaths).
DeleteTasks(desiredPaths, currentState) ==
    LET gone == SelectSeq(GenPaths, LAMBDA p :
                    /\ p \in DOMAIN currentState
                    /\ \A i \in DOMAIN desiredPaths : desiredPaths[i].path # p)
    IN  [i \in DOMAIN gone |-> Task(gone[i], "delete", NoPayload)]

\* generateNewTasks.
generateNewTasks(desiredPaths, currentState) ==
    UpdateTasks(desiredPaths, currentState, 1) \o DeleteTasks(desiredPaths, currentState)

(***************************************************************************)
(* The intelligent generator (generator.go).  A configuration is a         *)
(* function from the paths it has to their values; a configuration that    *)
(* may be nil is <<>> or <<configuration>>.  The ranges over Go maps are   *)
(* taken in the order of GenPaths.                                         *)
(***************************************************************************)
HCLDiff(p, old, new) == [Path |-> p, OldValue |-> old, NewValue |-> new]

\* compareConfigs.
compareConfigs(current, desired) ==
    LET changed == SelectSeq(GenPaths, LAMBDA p :
                      /\ p \in DOMAIN desired
                      /\ \/ p \notin DOMAIN current
                         \/ ~configValuesEqual(current[p], desired[p]))
        removed == SelectSeq(GenPaths, LAMBDA p :
                      p \in DOMAIN current /\ p \notin DOMAIN desired)
    IN  [i \in DOMAIN changed |->
            HCLDiff(changed[i],
                    IF changed[i] \in DOMAIN current THEN current[changed[i]]
                    ELSE NilValue,
                    desired[changed[i]])]
        \o [i \in DOMAIN removed |-> HCLDiff(removed[i], current[removed[i]], NilValue)]

\* generateTasksFromDiffs.
generateTasksFromDiffs(diffs) ==
    LET kept == SelectSeq(diffs, LAMBDA d :
                    ~(d.OldValue = NilValue /\ d.NewValue = NilValue))
    IN  [i \in DOMAIN kept |->
            LET d == kept[i]
                method == IF d.OldValue # NilValue /\ d.NewValue = NilValue THEN "DELETE"
                          ELSE IF d.OldValue # NilValue THEN "PUT"
                          ELSE "POST"
            IN  Task(d.Path, method,
                     IF d.NewValue # NilValue THEN toMapStringInterface(d.NewValue)
                     ELSE NoPayload)]

\* The tasks of the full migration: one POST for every desired path.
BootstrapTasks(desired) ==
    LET paths == SelectSeq(GenPaths, LAMBDA p : p \in DOMAIN desired)
    IN  [i \in DOMAIN paths |->
            Task(paths[i], "POST", toMapStringInterface(desired[paths[i]]))]

\* What a call of a generator returns and leaves behind.
GenResult(how, d, snap, ts, v) ==
    [outcome |-> how, dir |-> d, snapshot |-> snap, tasks |-> ts, version |-> v]

\* The tail of GenerateIntelligentMigration: GenerateMigration, then
\* saveLastKnownState.  fileOk and saveOk are the outcomes of the two writes.
EmitMigration(d, snap, desired, ts, fileOk, saveOk) ==
    LET v == getLatestVersion(d) + 1
        written == WriteFile(d, File(IntelligentFileName(v), v, ts))
    IN  IF ~fileOk THEN GenResult("error", d, snap, ts, v)
        ELSE IF ~saveOk THEN GenResult("error", written, snap, ts, v)
        ELSE GenResult("generated", written, <<desired>>, ts, v)

\* Mutant of GenerateIntelligentMigration: the state file is not consulted.
GenerateIntelligentMigrationNoFallback(currentConfig, desired, d, snap, fileOk, saveOk) ==
    IF currentConfig = <<>> THEN
        IF DOMAIN desired = {} THEN GenResult("noop", d, snap, <<>>, 0)
        ELSE EmitMigration(d, snap, desired, BootstrapTasks(desired), fileOk, saveOk)
    ELSE LET ts == generateTasksFromDiffs(compareConfigs(currentConfig[1], desired))
         IN  IF Len(ts) = 0 THEN GenResult("noop", d, snap, <<>>, 0)
             ELSE EmitMigration(d, snap, desired, ts, fileOk, saveOk)

\* GenerateIntelligentMigration: currentConfig is <<>> when it is nil, snap
\* is the state file (<<>> when there is none).
GenerateIntelligentMigration(currentConfig, desired, d, snap, fileOk, saveOk) ==
    LET current == IF currentConfig = <<>> THEN snap ELSE currentConfig IN
    IF current = <<>> THEN
        IF DOMAIN desired = {} THEN GenResult("noop", d, snap, <<>>, 0)
        ELSE EmitMigration(d, snap, desired, BootstrapTasks(desired), fileOk, saveOk)
    ELSE LET diffs == compareConfigs(current[1], desired)
             ts    == generateTasksFromDiffs(diffs)
         IN  IF Len(diffs) = 0 \/ Len(ts) = 0 THEN GenResult("noop", d, snap, <<>>, 0)
             ELSE EmitMigration(d, snap, desired, ts, fileOk, saveOk)

\* handleMigrationGeneration, from the loaded schema on.
handleMigrationGeneration(desiredPaths, d, snap, fileOk) ==
    LET ts == generateNewTasks(desiredPaths, getCurrentState(d))
        v  == getNextMigrationVersion(d)
    IN  IF Len(ts) = 0 THEN GenResult("noop", d, snap, <<>>, 0)
        ELSE IF ~fileOk THEN GenResult("error", d, snap, ts, v)
        ELSE GenResult("generated", WriteFile(d, File(SchemaFileName(v), v, ts)), snap, ts, v)

(***************************************************************************)
(* The inputs of the generators and the specification GenSpec: calls of    *)
(* one generator over a directory, the engine standing idle.               *)
(***************************************************************************)
\* A function from the paths that were given a value to that value.
TreeOf(app, auth) ==
    [p \in {q \in {AppPath, AuthPath} :
                (q = AppPath /\ app # <<>>) \/ (q = AuthPath /\ auth # <<>>)} |->
        IF p = AppPath THEN app[1] ELSE auth[1]]

\* Desired configurations of the intelligent generator.
Trees ==
    {TreeOf(app, auth) :
        app \in {<<>>, <<ValueA>>, <<ValueStr>>},
        auth \in {<<>>, <<ValueScalar>>}}

\* Live configurations read from the store; <<>> when the store gave none.
LiveConfigs ==
    {<<>>, <<TreeOf(<<ValueInt>>, <<>>)>>}

\* Schemas of the schema generator: at most one entry for each path.
Schemas ==
    {app \o auth :
        app \in {<<>>, <<SchemaEntry(AppPath, <<"write">>, ValueA)>>,
                 <<SchemaEntry(AppPath, <<"write">>, ValueB)>>,
                 <<SchemaEntry(AppPath, <<"read", "write">>, ValueA)>>},
        auth \in {<<>>, <<SchemaEntry(AuthPath, <<"write">>, ValueA)>>,
                  <<SchemaEntry(AuthPath, <<"write">>, ValueData)>>,
                  <<SchemaEntry(AuthPath, <<"list">>, ValueA)>>}}

\* The write that fails in a call of a generator, if any.
Failures == {"none", "file", "state"}

\* The record of a generator call: its inputs, the directory and the state
\* file it found, what it returned, and how many runs had been started.
CallRecord(current, desired, d, snap, r) ==
    [current |-> current, desired |-> desired, dirBefore |-> d,
     snapshotBefore |-> snap, outcome |-> r.outcome, tasks |-> r.tasks,
     version |-> r.version, runs |-> runs]

engineVars == <<draft, store, dryRun, cancelled, pc, result, lastVersion, migrations,
                idx, unit, errChan, runs, applied, committed, running, outcome, called,
                cursorWrites, failedIdx, startTrack, csTrack, csStore, prev, env, applyErr>>

GenInit ==
    /\ draft = "A"
    /\ dir \in GenDirectories
    /\ EngineInit
    /\ gen \in {[mode |-> m, snapshot |-> <<>>, count |-> 0, last |-> <<>>] :
                    m \in {"schema", "intelligent"}}

\* vault-migrations --generate of main.go: handleMigrationGeneration.
GenerateSchema ==
    /\ gen.mode = "schema"
    /\ gen.count < MaxGenerations
    /\ \E desiredPaths \in Schemas, fail \in {"none", "file"} :
        LET r == handleMigrationGeneration(desiredPaths, dir, gen.snapshot,
                                           fail # "file") IN
        /\ dir' = r.dir
        /\ gen' = [mode |-> gen.mode, snapshot |-> r.snapshot, count |-> gen.count + 1,
                   last |-> CallRecord(<<getCurrentState(dir)>>, desiredPaths, dir,
                                       gen.snapshot, r)]
    /\ UNCHANGED engineVars

\* vault-migrations --generate of the older main: GenerateIntelligentMigration
\* with the live configuration, or nil when the store gave none.
GenerateIntelligentWith(configs, trees, failures) ==
    /\ gen.mode = "intelligent"
    /\ gen.count < MaxGenerations
    /\ \E currentConfig \in configs, desired \in trees, fail \in failures :
        LET r == GenerateIntelligentMigration(currentConfig, desired, dir, gen.snapshot,
                                              fail # "file", fail # "state") IN
        /\ dir' = r.dir
        /\ gen' = [mode |-> gen.mode, snapshot |-> r.snapshot, count |-> gen.count + 1,
                   last |-> CallRecord(currentConfig, desired, dir, gen.snapshot, r)]
    /\ UNCHANGED engineVars

GenerateIntelligent == GenerateIntelligentWith(LiveConfigs, Trees, Failures)

GenNext == GenerateSchema \/ GenerateIntelligent

GenSpec == GenInit /\ [][GenNext]_vars

GenTypeOK ==
    /\ gen.mode \in {"schema", "intelligent"}
    /\ gen.count \in 0..MaxGenerations
    /\ \A i, j \in DOMAIN dir : i < j => NameLess(dir[i].name, dir[j].name)
    /\ gen.count > 0 => gen.last.outcome \in {"noop", "generated", "error"}

(***************************************************************************)
(* Vocabulary of the claims about the generators.                          *)
(***************************************************************************)
\* The last call of a generator, once one was made.
Called == gen.count > 0
Last == gen.last
Generated == Called /\ Last.outcome = "generated"
NoOp == Called /\ Last.outcome = "noop"

Contents(d) == [i \in DOMAIN d |-> Migration(d[i].version, d[i].tasks)]

\* The listings of the directories that hold the files of d under other
\* names: the contents in any order against the sorted names.
Renamings(d) ==
    {[i \in DOMAIN d |-> File(d[i].name, d[p[i]].version, d[p[i]].tasks)] :
        p \in Orderings(Len(d))}

(* C29. File names carry no meaning: whatever names the change-set files   *)
(* of the directory are given, the engine loads them in the same order and *)
(* the schema generator reconstructs the same current state from them.     *)
C29_FileNamesCarryNoMeaning ==
    (Called /\ gen.mode = "schema") =>
        \A r \in Renamings(Last.dirBefore) :
            /\ {Contents(l) : l \in loadMigrations(r)}
                  = {Contents(l) : l \in loadMigrations(Last.dirBefore)}
            /\ getCurrentState(r) = Last.current[1]

\* The current value of a schema entry's path as the specification
\* normalizes it: unwrapped only where the policy of the path wraps.
NormalizedCurrent(entry, currentState) ==
    LET data == currentState[entry.path].data IN
    IF getPathConfig(entry.path).DataWrapper /\ HasKey(data, "data")
          /\ IsMap(Lookup(data, "data"))
    THEN Lookup(data, "data")
    ELSE data

\* The entries of a schema that ask for a write and nothing else.
WriteEntries(desiredPaths) ==
    {desiredPaths[i] : i \in {j \in DOMAIN desiredPaths :
                                 desiredPaths[j].methods = <<"write">>}}

(* C30. Normalization unwraps only where the policy says so: for a write   *)
(* entry of the schema whose path has a current value, the schema          *)
(* generator emits a task exactly when the desired payload differs from    *)
(* the current one, unwrapped from "data" only on a path whose policy      *)
(* wraps.                                                                  *)
C30_UnwrapOnlyWherePolicyWraps ==
    (Called /\ gen.mode = "schema") =>
        \A entry \in WriteEntries(Last.desired) :
            entry.path \in DOMAIN Last.current[1] =>
                ((NormalizedCurrent(entry, Last.current[1]) # entry.data)
                    <=> \E k \in DOMAIN Last.tasks : Last.tasks[k].path = entry.path)

\* A payload as the store holds it for its path: out of the "data" key on a
\* path whose policy wraps.
Unwrapped(p, payload) ==
    IF getPathConfig(p).DataWrapper /\ HasKey(payload, "data")
    THEN Lookup(payload, "data")
    ELSE payload

\* The tree the last call compared the desired one against, and the desired
\* tree, as functions from paths to values.
CurrentTree ==
    IF gen.mode = "schema"
    THEN [p \in DOMAIN Last.current[1] |-> Unwrapped(p, Last.current[1][p].data)]
    ELSE IF Last.current # <<>> THEN Last.current[1]
    ELSE IF Last.snapshotBefore # <<>> THEN Last.snapshotBefore[1]
    ELSE [p \in {} |-> NilValue]

DesiredTree ==
    IF gen.mode = "schema"
    THEN [p \in {Last.desired[i].path : i \in DOMAIN Last.desired} |->
            (CHOOSE e \in SeqToSet(Last.desired) : e.path = p).data]
    ELSE Last.desired

IsWrite(t) == t.method \in {"write", "POST", "PUT"}
IsDelete(t) == t.method \in {"delete", "DELETE"}

\* The tree a change-set leaves when its tasks are applied to a tree: a
\* Write overwrites the path, a Delete removes it.
RECURSIVE ApplyChangeSet(_, _, _)
ApplyChangeSet(tree, ts, i) ==
    IF i > Len(ts) THEN tree
    ELSE LET t == ts[i]
             next == IF IsWrite(t)
                     THEN [p \in (DOMAIN tree) \cup {t.path} |->
                              IF p = t.path THEN Unwrapped(t.path, t.data) ELSE tree[p]]
                     ELSE IF IsDelete(t)
                     THEN [p \in (DOMAIN tree) \ {t.path} |-> tree[p]]
                     ELSE tree
         IN  ApplyChangeSet(next, ts, i + 1)

(* C21. Diff completeness: the change-set a generator computes, applied to *)
(* the current tree it compared against, yields the desired tree; when it  *)
(* computes none, the current tree is the desired one.                     *)
C21_DiffComplete ==
    (Called /\ Last.outcome # "error") =>
        ApplyChangeSet(CurrentTree, Last.tasks, 1) = DesiredTree

\* The tasks of the last call that aim at a path.
TasksFor(p) == {k \in DOMAIN Last.tasks : Last.tasks[k].path = p}

(* C22. Diff minimality: a path that the current and the desired tree both *)
(* have, with identical values once the current one is normalized, gets no *)
(* task.                                                                   *)
C22_DiffMinimal ==
    Called =>
        \A p \in (DOMAIN CurrentTree) \cap (DOMAIN DesiredTree) :
            CurrentTree[p] = DesiredTree[p] => TasksFor(p) = {}

(* C23. Diff task classification: a desired path without a current value,  *)
(* or with another value than the current one, gets a Write task; a path   *)
(* gets a Delete task exactly when the current tree has it and the desired *)
(* tree does not.                                                          *)
C23_TaskClassification ==
    Called =>
        /\ \A p \in DOMAIN DesiredTree :
              (p \notin DOMAIN CurrentTree \/ CurrentTree[p] # DesiredTree[p]) =>
                  \E k \in TasksFor(p) : IsWrite(Last.tasks[k])
        /\ \A p \in SeqToSet(GenPaths) :
              (\E k \in TasksFor(p) : IsDelete(Last.tasks[k]))
                  <=> (p \in DOMAIN CurrentTree /\ p \notin DOMAIN DesiredTree)

(* C25. No-op generation changes nothing: a call that computes no task     *)
(* leaves the directory and the Last-Known-State snapshot as they were; a  *)
(* call that computes tasks and succeeds leaves every file that was there, *)
(* exactly one new file, and the desired tree as the snapshot.             *)
C25_NoOpChangesNothing ==
    /\ NoOp =>
          /\ Last.tasks = <<>>
          /\ dir = Last.dirBefore
          /\ gen.snapshot = Last.snapshotBefore
    /\ Generated =>
          /\ Last.tasks # <<>>
          /\ Len(dir) = Len(Last.dirBefore) + 1
          /\ \A i \in DOMAIN Last.dirBefore : \E j \in DOMAIN dir : dir[j] = Last.dirBefore[i]
          /\ gen.snapshot = <<DesiredTree>>

C27_WrappingFollowsPolicy ==
    Called =>
        \A k \in DOMAIN Last.tasks :
            IsWrite(Last.tasks[k]) =>
                LET p == Last.tasks[k].path IN
                /\ p \in DOMAIN DesiredTree
                /\ Last.tasks[k].data =
                      IF getPathConfig(p).DataWrapper
                      THEN Map(<<Entry("data", DesiredTree[p])>>)
                      ELSE DesiredTree[p]

\* The change-set file of the last call is in the directory and was not
\* there before.
NewFileExists ==
    \E i \in DOMAIN dir :
        /\ dir[i].version = Last.version
        /\ dir[i].tasks = Last.tasks
        /\ \A j \in DOMAIN Last.dirBefore : Last.dirBefore[j] # dir[i]

(* C38. Generation keeps file and snapshot in step also on failure: after  *)
(* any call of the intelligent generator, failed or not, either a new      *)
(* change-set file exists and the snapshot is the desired tree, or the     *)
(* directory and the snapshot are as they were.                            *)
C38_FileAndSnapshotInStep ==
    (Called /\ gen.mode = "intelligent") =>
        \/ NewFileExists /\ gen.snapshot = <<Last.desired>>
        \/ dir = Last.dirBefore /\ gen.snapshot = Last.snapshotBefore

\* A call follows a call that emitted a change-set, with the same desired
\* tree and without a live configuration.
RepeatedGeneration ==
    /\ Generated
    /\ gen'.count = gen.count + 1
    /\ gen'.last.desired = Last.desired
    /\ gen.mode = "intelligent" => gen'.last.current = <<>>

(* C35. Generation is idempotent: a call that immediately follows a call   *)
(* that emitted a change-set, with the same desired tree over the          *)
(* directory and snapshot that call left and without a live configuration, *)
(* is a no-op.                                                             *)
C35_GenerationIdempotent ==
    [][RepeatedGeneration => gen'.last.outcome = "noop"]_vars

(* C36. Generator and executor agree on methods: some executor accepts     *)
(* every method of the tasks a generator emitted and every method the path *)
(* policy lists as valid, so that applying a generated change-set cannot   *)
(* fail with "unsupported method".                                         *)
C36_GeneratorAndExecutorAgree ==
    Called =>
        \E d \in Drafts :
            /\ \A k \in DOMAIN Last.tasks : ~Unsupported(d, Last.tasks[k].method)
            /\ \A p \in SeqToSet(GenPaths) :
                  \A m \in getPathConfig(p).Methods : ~Unsupported(d, m)

\* The store call of unit k has returned success in this application.
Succeeded(k) == unit[k].calls > 0 /\ unit[k].err = "nil"

(* C32. A successful store call is not repeated: once the store call of a  *)
(* unit has returned success, the unit makes no further store call in this *)
(* application of the change-set, and it ends reporting success.           *)
C32_SuccessNotRepeated ==
    [][(pc = "apply" /\ pc' = "apply") =>
          \A k \in DOMAIN unit :
              Succeeded(k) =>
                  /\ unit'[k].calls = unit[k].calls
                  /\ unit'[k].err = "nil"
                  /\ unit'[k].st = "done" => outcome'[idx][k] = "ok"]_vars

(***************************************************************************)
(* The engine under a scheduler that lets every runnable goroutine run,    *)
(* with store calls that return and sleeps that end.                       *)
(***************************************************************************)
LiveSpec ==
    /\ Spec
    /\ \A k \in TaskSlots :
          WF_vars(Attempt(k)) /\ WF_vars(Tick(k)) /\ WF_vars(Backoff(k))
    /\ WF_vars(Collect)

\* The errors unit k has sent to errChan.
ErrorsOf(k) == {n \in DOMAIN errChan : errChan[n].unit = k}

(* C33. apply(changeSet) always terminates when every store call returns:  *)
(* each unit records at most one error, the errors recorded never exceed   *)
(* the operations of the change-set (the capacity of errChan), and every   *)
(* application that has started ends, whatever succeeds, fails or is       *)
(* cancelled.                                                              *)
C33_ApplyTerminates ==
    /\ [](pc = "apply" =>
            /\ Len(errChan) <= Len(migrations[idx].tasks)
            /\ \A k \in DOMAIN unit : Cardinality(ErrorsOf(k)) <= 1)
    /\ (pc = "apply" ~> pc # "apply")

\* An application ended with errChan full: every unit of a change-set of
\* two operations recorded an error, one of them on cancellation.
C33_Witness ==
    /\ pc = "done"
    /\ failedIdx > 0
    /\ Len(errChan) = 2
    /\ Len(migrations[failedIdx].tasks) = 2
    /\ \E n \in DOMAIN errChan : errChan[n].kind = "cancelled"
    /\ \E n \in DOMAIN errChan : errChan[n].kind = "store"

\* A step of the goroutine of operation k.
UnitStep(k) == Attempt(k) \/ Tick(k) \/ Backoff(k)

(* C31. Within one change-set no unit waits for another: every live        *)
(* goroutine can take its next step whatever the others are doing, be they *)
(* asleep in a backoff or between two store calls, and the step of one     *)
(* goroutine leaves the position of every other one as it was.             *)
C31_NoUnitWaitsForAnother ==
    /\ [](\A u \in running : ENABLED UnitStep(u[2]))
    /\ [][\A j \in TaskSlots : UnitStep(j) =>
              \A k \in DOMAIN unit : k # j => unit'[k] = unit[k]]_vars

\* The first goroutine is asleep in its first backoff, with time left, and
\* the second one has made all its attempts and ended meanwhile.
C31_Witness ==
    /\ pc = "apply"
    /\ draft = "A"
    /\ Len(unit) = 2
    /\ unit[1].st = "sleep" /\ unit[1].retries = 0 /\ unit[1].left > 0
    /\ unit[2].st = "done" /\ unit[2].calls = MaxAttempts

\* The store after the operations of a change-set were applied one after
\* another, in the order of the file, every store call succeeding.
RECURSIVE SequentialApply(_, _, _)
SequentialApply(s, ts, i) ==
    IF i > Len(ts) THEN s
    ELSE SequentialApply(executeTask(draft, s, ts[i], TRUE).store, ts, i + 1)

DistinctPaths(ts) == \A i, j \in DOMAIN ts : i # j => ts[i].path # ts[j].path

\* applyMigration has just returned nil for the change-set at idx, every
\* operation of it having succeeded.
AppliedInFull == pc = "set" /\ unit # <<>> /\ FullyOk(idx)

(* C37. Interleaving independence: when the operations of a change-set     *)
(* target pairwise distinct paths and all succeed, the store after the     *)
(* application is, whatever the interleaving of the units was, the store   *)
(* that applying the operations one after another in file order gives.     *)
C37_InterleavingIndependent ==
    (AppliedInFull /\ DistinctPaths(migrations[idx].tasks)) =>
        store = SequentialApply(csStore, migrations[idx].tasks, 1)

\* Two goroutines applied a change-set of two operations on distinct paths,
\* both succeeded, and the store has changed.
C37_Witness ==
    /\ AppliedInFull
    /\ draft # "C"
    /\ Len(migrations[idx].tasks) = 2
    /\ DistinctPaths(migrations[idx].tasks)
    /\ store # csStore

(***************************************************************************)
(* Generator calls and engine runs over one directory.  The generator is   *)
(* a process of its own: a call of it may fall before, between, after or   *)
(* within runs.  The change-sets are those of the intelligent generator,   *)
(* whose methods are the ones draft B executes.                            *)
(***************************************************************************)
GenRunDirectories ==
    { <<>>,
      \* a change-set with a task aimed at the tracking path
      << File(IntelligentFileName(1), 1,
              <<Task(TrackingPath, "POST", [version |-> Itoa(3)])>>) >> }

GenRunInit ==
    /\ draft \in Drafts
    /\ dir \in GenRunDirectories
    /\ EngineInit
    /\ gen = [mode |-> "intelligent", snapshot |-> <<>>, count |-> 0, last |-> <<>>]

\* The store gives no live configuration, the desired tree is one path or
\* none, and the writes of the generator succeed.
GenerateAmongRuns ==
    GenerateIntelligentWith({<<>>}, {TreeOf(<<ValueA>>, <<>>), TreeOf(<<>>, <<>>)},
                            {"none"})

GenRunNext == Next \/ GenerateAmongRuns

GenRunSpec == GenRunInit /\ [][GenRunNext]_vars

\* The positions of the loaded change-sets that hold the change-set the
\* last generator call emitted.
LoadedGenerated ==
    {i \in DOMAIN migrations :
        migrations[i].version = Last.version /\ migrations[i].tasks = Last.tasks}

\* The run that has just returned nil is the first run started after the
\* last generator call to do so: the one before it, if it was started after
\* that call too, returned an error.
FirstSuccessSinceGenerated ==
    /\ Generated
    /\ pc = "done" /\ result = "ok"
    /\ \/ runs = Last.runs + 1
       \/ runs = Last.runs + 2 /\ prev.result = "error"

(* C34. Generated change-sets are always pending: in every interleaving of *)
(* generator calls and runs over one directory, the version of a           *)
(* change-set that a generator call emits is above the Version Cursor of   *)
(* that moment, and the first run started after the call that completes    *)
(* successfully has loaded the change-set and called applyMigration for it.*)
C34_GeneratedAlwaysPending ==
    /\ [][(gen'.count = gen.count + 1 /\ gen'.last.outcome = "generated") =>
             gen'.last.version > Cursor(store)]_vars
    /\ [](FirstSuccessSinceGenerated =>
             /\ LoadedGenerated # {}
             /\ \A i \in LoadedGenerated : \E n \in DOMAIN applied : applied[n] = i)

====
